---------------------------- MODULE Spec2Model ----------------------------
(***************************************************************************)
(* A model of the face-photo alignment script src/faces/align.py.          *)
(*                                                                         *)
(* main() is a sequential batch program: load_data, pass 1 (eye-only       *)
(* similarity fit and transformed landmarks), averaging, pass 2 (fit       *)
(* against the average), pass 3 (exact 3-point affine from the original    *)
(* landmarks), warp and accumulation into the average image.  Each loop    *)
(* iteration and each straight-line statement group is one action.         *)
(*                                                                         *)
(* Numbers.  Python/numpy floats are modelled as exact rationals <<n, d>>  *)
(* (d > 0, lowest terms); every arithmetic operation is exact.  The        *)
(* explicit single-precision conversions of the source (np.float32 at      *)
(* lines 44, 127-128, 170 and 188) are modelled by ToFloat32, which rounds *)
(* to the nearest multiple of 1/F32Scale: a fixed-point stand-in for the   *)
(* 24-bit significand, coarse enough for TLC's 32-bit integers.            *)
(* The synthetic third point of calculate_third_equilateral_point is       *)
(* irrational; its coordinates are numbers p + q*sqrt(3) with rational p   *)
(* and q, and are rounded exactly when the source casts them.              *)
(*                                                                         *)
(* OpenCV (cv2) is an external library.  Its three functions are modelled  *)
(* by what they compute: estimateRigidTransform by its degeneracy test and *)
(* the least-squares similarity of getRTMatrix, getAffineTransform by the  *)
(* solution of the 3-point linear system (all-zero when it is singular),   *)
(* warpAffine by its inverse mapping in 10-bit fixed point with 5-bit      *)
(* bilinear weights and a constant zero border.                            *)
(***************************************************************************)
EXTENDS Integers, Sequences, FiniteSets, TLC

(***************************************************************************)
(* Bounds of the model.                                                    *)
(***************************************************************************)
\* Largest number of *.jpg files in the input directory.
MaxPhotos == 2

\* Resolution of the modelled single precision: float32 values are the
\* multiples of 1/F32Scale.
F32Scale == 8

(***************************************************************************)
(* Exact rational arithmetic on pairs <<n, d>>, d > 0, gcd(n, d) = 1.      *)
(***************************************************************************)
Abs(n) == IF n < 0 THEN -n ELSE n

RECURSIVE GCD(_, _)
GCD(a, b) == IF b = 0 THEN a ELSE GCD(b, a % b)

RNorm(n, d) == LET g == GCD(Abs(n), d) IN <<n \div g, d \div g>>

R(n) == <<n, 1>>

Zero == <<0, 1>>

One == <<1, 1>>

Half == <<1, 2>>

RNeg(p) == <<-p[1], p[2]>>

RAdd(p, q) ==
  LET g == GCD(p[2], q[2])
  IN  RNorm(p[1] * (q[2] \div g) + q[1] * (p[2] \div g), (p[2] \div g) * q[2])

RSub(p, q) == RAdd(p, RNeg(q))

RMul(p, q) ==
  LET g1 == GCD(Abs(p[1]), q[2])
      g2 == GCD(Abs(q[1]), p[2])
  IN  <<(p[1] \div g1) * (q[1] \div g2), (p[2] \div g2) * (q[2] \div g1)>>

\* 1/p for p # 0.
RInv(p) == IF p[1] > 0 THEN <<p[2], p[1]>> ELSE <<-p[2], -p[1]>>

RDiv(p, q) == RMul(p, RInv(q))

RSign(p) == IF p[1] > 0 THEN 1 ELSE IF p[1] < 0 THEN -1 ELSE 0

RAbs(p) == <<Abs(p[1]), p[2]>>

\* Sign of a/b - c/d for a, c >= 0 and b, d > 0, by continued fractions: no
\* product of numerators and denominators is formed.
RECURSIVE CmpFrac(_, _, _, _)
CmpFrac(a, b, c, d) ==
  LET qa == a \div b
      qc == c \div d
      ra == a % b
      rc == c % d
  IN  IF qa # qc THEN (IF qa > qc THEN 1 ELSE -1)
      ELSE IF ra = 0 \/ rc = 0
           THEN (IF ra > 0 THEN 1 ELSE 0) - (IF rc > 0 THEN 1 ELSE 0)
           ELSE -CmpFrac(b, ra, d, rc)

\* Sign of p - q.
RCmp(p, q) ==
  LET sp == RSign(p)
      sq == RSign(q)
  IN  IF sp # sq THEN (IF sp > sq THEN 1 ELSE -1)
      ELSE IF sp = 0 THEN 0
      ELSE sp * CmpFrac(Abs(p[1]), p[2], Abs(q[1]), q[2])

RLt(p, q) == RCmp(p, q) < 0

RLe(p, q) == RCmp(p, q) <= 0

RFloor(p) == p[1] \div p[2]

\* Round to the nearest integer, ties to even (C rint, OpenCV cvRound,
\* IEEE-754 round-to-nearest).
RoundHalfEven(p) ==
  LET f == RFloor(p)
      t == 2 * (p[1] - f * p[2])      \* twice the remainder
  IN  IF t < p[2] THEN f
      ELSE IF t > p[2] THEN f + 1
      ELSE IF f % 2 = 0 THEN f ELSE f + 1

\* cvRound(p * 2^bits), computed by doubling the remainder bit by bit so that
\* the product p[1] * 2^bits is never formed.  qr = <<quotient, remainder>>.
RECURSIVE ShiftQR(_, _, _)
ShiftQR(qr, d, bits) ==
  IF bits = 0 THEN qr
  ELSE LET r2 == 2 * qr[2]
       IN  IF r2 >= d THEN ShiftQR(<<2 * qr[1] + 1, r2 - d>>, d, bits - 1)
           ELSE ShiftQR(<<2 * qr[1], r2>>, d, bits - 1)

RoundShift(p, bits) ==
  LET f  == RFloor(p)
      qr == ShiftQR(<<f, p[1] - f * p[2]>>, p[2], bits)
      t  == 2 * qr[2]
  IN  IF t < p[2] THEN qr[1]
      ELSE IF t > p[2] THEN qr[1] + 1
      ELSE IF qr[1] % 2 = 0 THEN qr[1] ELSE qr[1] + 1

(***************************************************************************)
(* Numbers p + q*sqrt(3), pairs <<p, q>> of rationals.                     *)
(***************************************************************************)
Q3(p) == <<p, Zero>>

\* Sign of p + q*sqrt(3): when the two parts disagree, compare p^2 with 3q^2.
QSign(z) ==
  LET sa == RSign(z[1])
      sb == RSign(z[2])
  IN  IF sa >= 0 /\ sb >= 0 THEN (IF sa > 0 \/ sb > 0 THEN 1 ELSE 0)
      ELSE IF sa <= 0 /\ sb <= 0 THEN -1
      ELSE sa * RCmp(RMul(z[1], z[1]), RMul(R(3), RMul(z[2], z[2])))

\* floor(p + q*sqrt(3)).  433/250 < sqrt(3) < 1733/1000 gives a lower
\* estimate less than 1 below the value (|q| < 1000), decided exactly by QSign.
QFloor(z) ==
  LET lo == RAdd(z[1], RMul(z[2], IF RSign(z[2]) >= 0 THEN <<433, 250>>
                                                     ELSE <<1733, 1000>>))
      k0 == RFloor(lo)
  IN  IF QSign(<<RSub(z[1], R(k0 + 1)), z[2]>>) >= 0 THEN k0 + 1 ELSE k0

(***************************************************************************)
(* np.float32: conversion to single precision.                             *)
(***************************************************************************)
ToFloat32(p) == RNorm(RoundHalfEven(RMul(p, R(F32Scale))), F32Scale)

\* The same conversion of p + q*sqrt(3); a tie needs q = 0.
QToFloat32(z) ==
  IF z[2] = Zero THEN ToFloat32(z[1])
  ELSE RNorm(QFloor(<<RAdd(RMul(z[1], R(F32Scale)), Half),
                      RMul(z[2], R(F32Scale))>>), F32Scale)

QAdd(z, w) == <<RAdd(z[1], w[1]), RAdd(z[2], w[2])>>

QSub(z, w) == <<RSub(z[1], w[1]), RSub(z[2], w[2])>>

\* z * r for rational r.
QScale(z, r) == <<RMul(z[1], r), RMul(z[2], r)>>

(***************************************************************************)
(* Points are pairs <<x, y>>; Python index k is TLA+ index k + 1.          *)
(***************************************************************************)
\* A rational point as a point with coordinates p + q*sqrt(3).
Lift(p) == <<Q3(p[1]), Q3(p[2])>>

\* np.array(points, np.float32()): every coordinate converted.
Float32Array(qpts) ==
  [k \in DOMAIN qpts |-> <<QToFloat32(qpts[k][1]), QToFloat32(qpts[k][2])>>]

\* Twice the signed area of the triangle <<t[1], t[2], t[3]>>.
Cross(t) ==
  RSub(RMul(RSub(t[2][1], t[1][1]), RSub(t[3][2], t[1][2])),
       RMul(RSub(t[2][2], t[1][2]), RSub(t[3][1], t[1][1])))

Collinear(t) == Cross(t) = Zero

SqDist(p, q) ==
  RAdd(RMul(RSub(q[1], p[1]), RSub(q[1], p[1])),
       RMul(RSub(q[2], p[2]), RSub(q[2], p[2])))

(***************************************************************************)
(* Module constants of align.py.                                           *)
(***************************************************************************)
\* cos(pi/3) = 1/2 and sin(pi/3) = sqrt(3)/2.
COS_PI3 == <<Half, Zero>>

SIN_PI3 == <<Zero, Half>>

\* (p + q*sqrt(3)) * (r + s*sqrt(3)).
QMul(z, w) ==
  <<RAdd(RMul(z[1], w[1]), RMul(R(3), RMul(z[2], w[2]))),
    RAdd(RMul(z[1], w[2]), RMul(z[2], w[1]))>>

\* A faulty variant of calculate_third_equilateral_point: the rotation turns
\* the other way (the signs of the sine terms are exchanged).
calculate_third_point_clockwise(a, b) ==
  LET new_x == QAdd(QAdd(QScale(COS_PI3, RSub(a[1], b[1])),
                         QScale(SIN_PI3, RSub(a[2], b[2]))), Q3(b[1]))
      new_y == QAdd(QSub(QScale(COS_PI3, RSub(a[2], b[2])),
                         QScale(SIN_PI3, RSub(a[1], b[1]))), Q3(b[2]))
  IN  <<new_x, new_y>>

(***************************************************************************)
(* calculate_third_equilateral_point(a, b): a rotated about b by pi/3.     *)
(***************************************************************************)
calculate_third_equilateral_point(a, b) ==
  LET new_x == QAdd(QSub(QScale(COS_PI3, RSub(a[1], b[1])),
                         QScale(SIN_PI3, RSub(a[2], b[2]))), Q3(b[1]))
      new_y == QAdd(QAdd(QScale(SIN_PI3, RSub(a[1], b[1])),
                         QScale(COS_PI3, RSub(a[2], b[2]))), Q3(b[2]))
  IN  <<new_x, new_y>>

(***************************************************************************)
(* cv2.estimateRigidTransform(src, dst, fullAffine=False) on two arrays of *)
(* 3 points (calculate_transform passes no other).  Its RANSAC loop draws  *)
(* 3 distinct indices in random order, up to 500 times.  A draw is refused *)
(* when two points of either side are closer than FLT_EPSILON or when      *)
(* either triangle, seen from the first drawn point, is collinear within   *)
(* 1 percent.  When every order is refused the result is the empty matrix, *)
(* which the Python binding returns as None; otherwise it is getRTMatrix   *)
(* of the points.  The random draws are modelled as trying every order.    *)
(* An accepted draw is followed by an inlier count: a fit that leaves two  *)
(* of the three points further from their targets than 5 percent of the    *)
(* target's bounding box is also answered by None.  The count is not       *)
(* computed here.  In pass 1 both triangles are equilateral, the fit is    *)
(* exact up to the rounding of the third points, and the count passes; in  *)
(* pass 2 the triangles are arbitrary and either answer is admitted        *)
(* (InlierTestOutcomes).                                                   *)
(***************************************************************************)
\* Python None (also: a local not yet bound).
None == [none |-> TRUE]

\* FLT_EPSILON = 2^-23.
FLT_EPSILON == <<1, 8388608>>

TooClose(p, q) ==
  RLt(RAdd(RAbs(RSub(p[1], q[1])), RAbs(RSub(p[2], q[2]))), FLT_EPSILON)

\* fabs(cross) < 0.01 * sqrt(n1) * sqrt(n2) for the edges from a0, compared
\* as (100 |cross|) / n1 < n2 / (100 |cross|).
NearCollinear(a0, a1, a2) ==
  LET x  == RMul(R(100), RAbs(Cross(<<a0, a1, a2>>)))
      n1 == SqDist(a0, a1)
      n2 == SqDist(a0, a2)
  IN  IF x = Zero THEN n1 # Zero /\ n2 # Zero
      ELSE RLt(RDiv(x, n1), RDiv(n2, x))

\* The orders of 3 indices, up to the exchange of the last two (which the
\* tests do not tell apart).
DrawOrders == {<<1, 2, 3>>, <<2, 3, 1>>, <<3, 1, 2>>}

DrawRefused(src, dst, o) ==
  \/ \E j, k \in 1..3 : j < k /\ (TooClose(src[j], src[k]) \/ TooClose(dst[j], dst[k]))
  \/ NearCollinear(src[o[1]], src[o[2]], src[o[3]])
  \/ NearCollinear(dst[o[1]], dst[o[2]], dst[o[3]])

RECURSIVE SumSeq(_)
SumSeq(s) == IF s = <<>> THEN Zero ELSE RAdd(Head(s), SumSeq(Tail(s)))

\* The mean point of a sequence of points.
MeanPoint(pts) ==
  <<RDiv(SumSeq([k \in DOMAIN pts |-> pts[k][1]]), R(Len(pts))),
    RDiv(SumSeq([k \in DOMAIN pts |-> pts[k][2]]), R(Len(pts)))>>

\* getRTMatrix(a, b, count, M, fullAffine=false): the least-squares
\* similarity x' = m0 x - m1 y + tx, y' = m1 x + m0 y + ty of the normal
\* equations, in the equivalent centred form: the matrix is
\*   [ m0  -m1  tx ]     tx = dst_mean.x - m0 src_mean.x + m1 src_mean.y
\*   [ m1   m0  ty ]     ty = dst_mean.y - m1 src_mean.x - m0 src_mean.y
\* and is kept as the record of m0, m1 and the two means.
getRTMatrix(a, b) ==
  LET c   == MeanPoint(a)
      cp  == MeanPoint(b)
      dx(k) == RSub(a[k][1], c[1])
      dy(k) == RSub(a[k][2], c[2])
      ex(k) == RSub(b[k][1], cp[1])
      ey(k) == RSub(b[k][2], cp[2])
      sa  == SumSeq([k \in DOMAIN a |-> RAdd(RMul(dx(k), dx(k)), RMul(dy(k), dy(k)))])
      sb0 == SumSeq([k \in DOMAIN a |-> RAdd(RMul(dx(k), ex(k)), RMul(dy(k), ey(k)))])
      sb1 == SumSeq([k \in DOMAIN a |-> RSub(RMul(dx(k), ey(k)), RMul(dy(k), ex(k)))])
  IN  [m0 |-> RDiv(sb0, sa), m1 |-> RDiv(sb1, sa), src_mean |-> c, dst_mean |-> cp]

estimateRigidTransform(src, dst) ==
  IF \A o \in DrawOrders : DrawRefused(src, dst, o) THEN None
  ELSE getRTMatrix(src, dst)

\* What a call with two arbitrary triangles may answer when the draw yields
\* the given fit: the fit, or None from the inlier count.
InlierTestOutcomes(fit) == {fit, None}

\* transform.dot([x, y, 1]) for a matrix of estimateRigidTransform.
RigidDot(M, p) ==
  LET dx == RSub(p[1], M.src_mean[1])
      dy == RSub(p[2], M.src_mean[2])
  IN  <<RAdd(M.dst_mean[1], RSub(RMul(M.m0, dx), RMul(M.m1, dy))),
        RAdd(M.dst_mean[2], RAdd(RMul(M.m1, dx), RMul(M.m0, dy)))>>

(***************************************************************************)
(* calculate_transform(starting_point, target_point).                      *)
(***************************************************************************)
\* A faulty variant of WithThirdPoint: the third point is computed from the
\* pair in reverse order.
WithThirdPointOfReversedPair(pts) ==
  IF Len(pts) = 2
  THEN <<Lift(pts[1]), Lift(pts[2]), calculate_third_equilateral_point(pts[2], pts[1])>>
  ELSE [k \in DOMAIN pts |-> Lift(pts[k])]

\* Lines 116-124: a list of 2 points gets the equilateral third appended.
WithThirdPoint(pts) ==
  IF Len(pts) = 2
  THEN <<Lift(pts[1]), Lift(pts[2]), calculate_third_equilateral_point(pts[1], pts[2])>>
  ELSE [k \in DOMAIN pts |-> Lift(pts[k])]

\* The two arrays handed to cv2.estimateRigidTransform, lines 126-130.
EstimatorArguments(starting_point, target_point) ==
  [src |-> Float32Array(WithThirdPoint(starting_point)),
   dst |-> Float32Array(WithThirdPoint(target_point))]

calculate_transform(starting_point, target_point) ==
  LET arguments == EstimatorArguments(starting_point, target_point)
  IN  estimateRigidTransform(arguments.src, arguments.dst)

(***************************************************************************)
(* cv2.getAffineTransform(src, dst): the 2x3 matrix <<a, b, c, d, e, f>>   *)
(* with a x + b y + c = x' and d x + e y + f = y' for the three pairs,     *)
(* solved by Cramer's rule.  The library solves the 6x6 system with        *)
(* cv::solve (LU) and ignores its result flag: on a singular system, that  *)
(* is on collinear source points, cv::solve leaves the all-zero matrix.    *)
(***************************************************************************)
ZeroMatrix == <<Zero, Zero, Zero, Zero, Zero, Zero>>

AffineRow(s, det, u1, u2, u3) ==
  LET a == RDiv(RSub(RMul(RSub(u2, u1), RSub(s[3][2], s[1][2])),
                     RMul(RSub(u3, u1), RSub(s[2][2], s[1][2]))), det)
      b == RDiv(RSub(RMul(RSub(s[2][1], s[1][1]), RSub(u3, u1)),
                     RMul(RSub(s[3][1], s[1][1]), RSub(u2, u1))), det)
  IN  <<a, b, RSub(RSub(u1, RMul(a, s[1][1])), RMul(b, s[1][2]))>>

getAffineTransform(src, dst) ==
  LET det == Cross(src)
  IN  IF det = Zero THEN ZeroMatrix
      ELSE AffineRow(src, det, dst[1][1], dst[2][1], dst[3][1])
           \o AffineRow(src, det, dst[1][2], dst[2][2], dst[3][2])

\* M . [x, y, 1] for a 2x3 matrix <<a, b, c, d, e, f>>.
Dot(M, p) ==
  <<RAdd(RAdd(RMul(M[1], p[1]), RMul(M[2], p[2])), M[3]),
    RAdd(RAdd(RMul(M[4], p[1]), RMul(M[5], p[2])), M[6])>>

(***************************************************************************)
(* Images.  An image is a record of its width, its height and its pixels.  *)
(* The three colour channels are treated alike by every operation of the   *)
(* script, and the model follows one of them.  Pixel arithmetic (the       *)
(* interpolation of warpAffine and the accumulation of line 200) is exact. *)
(***************************************************************************)
\* cv2.warpAffine's fixed-point formats: AB_BITS = 10 fractional bits of the
\* source coordinate, INTER_BITS = 5 of them kept as interpolation weight.
AB_BITS == 10

INTER_BITS == 5

INTER_TAB_SIZE == 32

\* The pixels of a 600x800 output at which the model observes it: the two
\* pupil targets, a mouth-level pixel, two corners and a forehead pixel.
ProbePixels ==
  {<<210, 320>>, <<390, 320>>, <<300, 400>>, <<0, 0>>, <<599, 799>>, <<300, 300>>}

(***************************************************************************)
(* The input directory.  A photo is one of a few files; a directory is a   *)
(* sequence of photos in the order glob.glob lists them.  The same photo   *)
(* may occur more than once (copies under different names).                *)
(***************************************************************************)
P(x, y) == <<R(x), R(y)>>

Photos == {"face", "tilted", "same_pupils", "collinear", "four", "six", "empty_txt", "no_txt"}

\* Whether the photo's .txt file exists (os.path.isfile, line 40).
HasCoordsFile(photo) == photo # "no_txt"

\* The numbers written on the lines of the photo's .txt file.
CoordsLines(photo) ==
  CASE photo = "face"        -> <<P(3, 4), P(4, 4), P(8, 4), P(9, 4), P(6, 9)>>
    [] photo = "tilted"      -> <<P(2, 3), <<<<31, 10>>, R(4)>>, P(5, 5), P(6, 6), P(2, 9)>>
    [] photo = "same_pupils" -> <<P(3, 4), P(4, 4), P(8, 4), P(3, 4), P(6, 9)>>
    [] photo = "collinear"   -> <<P(3, 4), P(4, 4), P(8, 4), P(9, 4), P(6, 4)>>
    [] photo = "four"        -> <<P(3, 4), P(4, 4), P(8, 4), P(9, 4)>>
    [] photo = "six"         -> <<P(3, 4), P(4, 4), P(8, 4), P(9, 4), P(6, 9), P(1, 1)>>
    [] OTHER                 -> <<>>

\* The decoded .jpg: its size and its 8-bit pixels.
JpgWidth(photo) == IF photo \in {"face", "same_pupils", "six"} THEN 12 ELSE 10

JpgHeight(photo) == 12

JpgPixel(photo, x, y) ==
  IF photo \in {"face", "same_pupils", "six"} THEN (20 * x + 3 * y) % 256 ELSE 255

Dirs == UNION {[1..n -> Photos] : n \in 0..MaxPhotos}

(***************************************************************************)
(* load_coords_for_image(jpg_path), lines 33-46.                           *)
(***************************************************************************)
load_coords_for_image(photo) ==
  IF HasCoordsFile(photo)
  THEN [k \in DOMAIN CoordsLines(photo) |->
          <<ToFloat32(CoordsLines(photo)[k][1]), ToFloat32(CoordsLines(photo)[k][2])>>]
  ELSE <<>>

\* Lines 63-65: cv2.imread, conversion to float32, division by 255.
LoadImage(photo) ==
  [file |-> photo, width |-> JpgWidth(photo), height |-> JpgHeight(photo)]

\* Pixel (u, v) of a loaded image: the file's 8-bit value over 255.
ImagePixel(img, u, v) == RNorm(JpgPixel(img.file, u, v), 255)

(***************************************************************************)
(* calculate_pupil_points(output_width, output_height), lines 134-148.     *)
(* The ratios are double-precision literals and the products are rounded   *)
(* to double before int() truncates them:                                  *)
(*   0.35       is the double 7/20  - (2/5) 2^-54,                         *)
(*   1.0 - 0.35 is the double 13/20 + (2/5) 2^-54 (the subtraction is      *)
(*              exact),                                                    *)
(*   0.4        is the double 2/5   + (2/5) 2^-54.                         *)
(* A product with a ratio just above its decimal value never falls below   *)
(* an integer, so its integer part is that of the exact product.  The      *)
(* product width * 0.35 lies just below 7 width/20: when that is an        *)
(* integer n in [2^k, 2^(k+1)) the doubles next to the product are n and   *)
(* n - 2^(k-52), and it is rounded to the lower one (int() then gives      *)
(* n - 1) exactly when (2 width/5) 2^-54 > 2^(k-53), that is when          *)
(* width > 5 * 2^k.                                                        *)
(***************************************************************************)
pupil_ratio_from_top == <<2, 5>>

pupil_ratio_from_left == <<7, 20>>

\* floor(log2(n)) for n >= 1.
RECURSIVE Log2Floor(_)
Log2Floor(n) == IF n < 2 THEN 0 ELSE 1 + Log2Floor(n \div 2)

\* int(width * pupil_ratio_from_left), lines 139 and 141.
IntTimesRatioFromLeft(width) ==
  LET exact == RMul(R(width), pupil_ratio_from_left)
  IN  IF exact[2] = 1 /\ exact[1] > 0 /\ width > 5 * 2 ^ Log2Floor(exact[1])
      THEN exact[1] - 1
      ELSE RFloor(exact)

calculate_pupil_points(width, height) ==
  LET left_pupil_coords ==
        <<R(IntTimesRatioFromLeft(width)),
          R(RFloor(RMul(R(height), <<2, 5>>)))>>
      right_pupil_coords ==
        <<R(RFloor(RMul(R(width), RSub(One, pupil_ratio_from_left)))),
          R(RFloor(RMul(R(height), <<2, 5>>)))>>
  IN  <<left_pupil_coords, right_pupil_coords>>

\* Lines 152-153.
output_width == 600

output_height == 800

\* invertAffineTransform as inlined in cv2.warpAffine (no WARP_INVERSE_MAP):
\* D = M0 M4 - M1 M3, D = 1/D if D # 0 else 0, and the inverse built from D.
InvertForWarp(M) ==
  LET D   == RSub(RMul(M[1], M[5]), RMul(M[2], M[4]))
      Di  == IF D = Zero THEN Zero ELSE RInv(D)
      A11 == RMul(M[5], Di)
      A22 == RMul(M[1], Di)
      m1  == RMul(M[2], RNeg(Di))
      m3  == RMul(M[4], RNeg(Di))
      b1  == RSub(RNeg(RMul(A11, M[3])), RMul(m1, M[6]))
      b2  == RSub(RNeg(RMul(m3, M[3])), RMul(A22, M[6]))
  IN  <<A11, m1, b1, m3, A22, b2>>

\* Source pixel (u, v) of an image, 0 outside it (BORDER_CONSTANT, value 0).
Sample(image, u, v) ==
  IF 0 <= u /\ u < image.width /\ 0 <= v /\ v < image.height
  THEN ImagePixel(image, u, v) ELSE Zero

\* Destination pixel (x, y) of warpAffine with INTER_LINEAR: the source
\* position in AB_BITS fixed point, rounded to 1/INTER_TAB_SIZE, and the
\* bilinear mix of the four neighbours.
WarpPixel(image, Mi, x, y) ==
  LET round_delta == INTER_TAB_SIZE \div 2
      X0 == RoundShift(RAdd(RMul(Mi[2], R(y)), Mi[3]), AB_BITS) + round_delta
      Y0 == RoundShift(RAdd(RMul(Mi[5], R(y)), Mi[6]), AB_BITS) + round_delta
      X  == (X0 + RoundShift(RMul(Mi[1], R(x)), AB_BITS)) \div (2 ^ (AB_BITS - INTER_BITS))
      Y  == (Y0 + RoundShift(RMul(Mi[4], R(x)), AB_BITS)) \div (2 ^ (AB_BITS - INTER_BITS))
      sx == X \div INTER_TAB_SIZE
      sy == Y \div INTER_TAB_SIZE
      fx == X % INTER_TAB_SIZE
      fy == Y % INTER_TAB_SIZE
      W(w, p) == RMul(<<w, INTER_TAB_SIZE * INTER_TAB_SIZE>>, p)
  IN  RAdd(RAdd(W((INTER_TAB_SIZE - fx) * (INTER_TAB_SIZE - fy), Sample(image, sx, sy)),
                W(fx * (INTER_TAB_SIZE - fy), Sample(image, sx + 1, sy))),
           RAdd(W((INTER_TAB_SIZE - fx) * fy, Sample(image, sx, sy + 1)),
                W(fx * fy, Sample(image, sx + 1, sy + 1))))

(***************************************************************************)
(* numpy and OpenCV array operations of main().                            *)
(***************************************************************************)
\* The result of np.average on an empty array.
NaN == <<"nan">>

\* np.array(transformed_images_points, np.float32()) exists only when all
\* point lists have the same length.
Ragged(lists) == \E j, k \in DOMAIN lists : Len(lists[j]) # Len(lists[k])

\* A faulty variant of AverageAxis0: the sums are divided by one more than
\* the number of lists.
AverageOffByOne(lists) ==
  [slot \in DOMAIN lists[1] |->
     <<ToFloat32(RDiv(SumSeq([k \in DOMAIN lists |-> ToFloat32(lists[k][slot][1])]),
                      R(Len(lists) + 1))),
       ToFloat32(RDiv(SumSeq([k \in DOMAIN lists |-> ToFloat32(lists[k][slot][2])]),
                      R(Len(lists) + 1)))>>]

\* np.average(np.array(lists, np.float32()), axis=0) of a non-empty,
\* non-ragged list of point lists: a float32 array.
AverageAxis0(lists) ==
  [slot \in DOMAIN lists[1] |->
     <<ToFloat32(RDiv(SumSeq([k \in DOMAIN lists |-> ToFloat32(lists[k][slot][1])]),
                      R(Len(lists)))),
       ToFloat32(RDiv(SumSeq([k \in DOMAIN lists |-> ToFloat32(lists[k][slot][2])]),
                      R(Len(lists))))>>]

\* np.float32(triangle), line 188.
Float32Points(pts) == [k \in DOMAIN pts |-> <<ToFloat32(pts[k][1]), ToFloat32(pts[k][2])>>]

\* np.zeros((rows, cols, 3), np.float32), observed at ProbePixels.
Zeros(rows, cols) ==
  [width |-> cols, height |-> rows, pix |-> [p \in ProbePixels |-> Zero]]

\* A faulty variant of warpAffine: the output keeps the size of the source.
warpAffineSourceSize(image, M, width, height) ==
  LET Mi == InvertForWarp(M)
  IN  [width |-> image.width, height |-> image.height,
       pix |-> [p \in ProbePixels |-> WarpPixel(image, Mi, p[1], p[2])]]

\* cv2.warpAffine(image, M, (width, height)).
warpAffine(image, M, width, height) ==
  LET Mi == InvertForWarp(M)
  IN  [width |-> width, height |-> height,
       pix |-> [p \in ProbePixels |-> WarpPixel(image, Mi, p[1], p[2])]]

\* array * 255, as handed to cv2.imwrite.
Times255(image) == [image EXCEPT !.pix = [p \in ProbePixels |-> RMul(image.pix[p], R(255))]]

\* f'{n:03}': n in decimal, zero-padded to 3 digits.
Digit(d) == <<"0", "1", "2", "3", "4", "5", "6", "7", "8", "9">>[d + 1]

RECURSIVE Decimal(_)
Decimal(n) == IF n < 10 THEN Digit(n) ELSE Decimal(n \div 10) \o Digit(n % 10)

Format03(n) ==
  IF n < 10 THEN "00" \o Decimal(n) ELSE IF n < 100 THEN "0" \o Decimal(n) ELSE Decimal(n)

\* cv2.imwrite(path, array) into the output directory.
WriteFile(files, name, array) ==
  [f \in DOMAIN files \cup {name} |-> IF f = name THEN array ELSE files[f]]

(***************************************************************************)
(* The state of one run of main(in_dir_path, out_dir_path).                *)
(***************************************************************************)
VARIABLES
  dir,                        \* the *.jpg files of in_dir_path, in glob order
  pc,                         \* the statement group main() is at
  i,                          \* 1 + the number of completed iterations of the current loop
  error,                      \* the exception that ended the run, or "none"
  log,                        \* the 'skipping ...' records of load_data
  pupil_points,
  all_images,
  all_images_points,
  all_transforms,
  transformed_images_points,
  averaged_points,
  all_transforms2,
  average_image,
  all_transforms3,
  image_count,
  out_files,                  \* the files written into out_dir_path
  fn_args,                    \* a function of the repository applied on its own: its arguments
  fn_result,                  \* ... and what it returned
  capture_pc,                 \* capture-coords.py: the statement process_directory is at
  jpg,                        \* 1 + the number of *.jpg files process_directory is done with
  first_time,
  new_coords,                 \* the list the mouse callback appends to
  key,                        \* k, the key code of the last cv2.waitKey
  events,                     \* mouse events of the window not yet dispatched
  txt_files                   \* the .txt files written by save_new_coords_for_image

locals ==
  <<pupil_points, all_images, all_images_points, all_transforms,
    transformed_images_points, averaged_points, all_transforms2, average_image,
    all_transforms3, image_count>>

alignVars == <<dir, pc, i, error, log, locals, out_files>>

\* The variables that no statement of align.py's main() touches.
captureVars == <<capture_pc, jpg, first_time, new_coords, key, events, txt_files>>

notAlignVars == <<fn_args, fn_result, captureVars>>

\* capture-coords.py is not running.
CaptureIdle ==
  /\ capture_pc = "idle"
  /\ jpg = 1
  /\ first_time = TRUE
  /\ new_coords = <<>>
  /\ key = 255
  /\ events = <<>>
  /\ txt_files = <<>>

vars == <<alignVars, notAlignVars>>

Init ==
  /\ dir \in Dirs
  /\ pc = "main"
  /\ i = 1
  /\ error = "none"
  /\ log = <<>>
  /\ pupil_points = <<>>
  /\ all_images = <<>>
  /\ all_images_points = <<>>
  /\ all_transforms = <<>>
  /\ transformed_images_points = <<>>
  /\ averaged_points = <<>>
  /\ all_transforms2 = <<>>
  /\ average_image = None
  /\ all_transforms3 = <<>>
  /\ image_count = 0
  /\ out_files = <<>>
  /\ fn_args = None
  /\ fn_result = None
  /\ CaptureIdle

\* An uncaught exception ends the run.
Raise(exception) == pc' = "crashed" /\ error' = exception

\* Lines 152-157 up to the loop of load_data (lines 53-54).
Begin ==
  /\ pc = "main"
  /\ pupil_points' = calculate_pupil_points(output_width, output_height)
  /\ all_images' = <<>>
  /\ all_images_points' = <<>>
  /\ pc' = "load_data"
  /\ i' = 1
  /\ UNCHANGED <<dir, error, log, all_transforms, transformed_images_points,
                 averaged_points, all_transforms2, average_image, all_transforms3,
                 image_count, out_files>>
  /\ UNCHANGED notAlignVars

\* One iteration of the loop of load_data, lines 56-68.
LoadStep ==
  /\ pc = "load_data"
  /\ i <= Len(dir)
  /\ LET coords == load_coords_for_image(dir[i])
     IN  IF Len(coords) < 5
         THEN /\ log' = Append(log, [jpg_path |-> i, coords |-> Len(coords)])
              /\ UNCHANGED <<all_images, all_images_points>>
         ELSE /\ all_images' = Append(all_images, LoadImage(dir[i]))
              /\ all_images_points' = Append(all_images_points, coords)
              /\ UNCHANGED log
  /\ i' = i + 1
  /\ UNCHANGED <<dir, pc, error, pupil_points, all_transforms, transformed_images_points,
                 averaged_points, all_transforms2, average_image, all_transforms3,
                 image_count, out_files>>
  /\ UNCHANGED notAlignVars

\* Line 70 (load_data returns) and line 160.
Pass1Begin ==
  /\ pc = "load_data"
  /\ i > Len(dir)
  /\ all_transforms' = <<>>
  /\ transformed_images_points' = <<>>
  /\ pc' = "pass1"
  /\ i' = 1
  /\ UNCHANGED <<dir, error, log, pupil_points, all_images, all_images_points,
                 averaged_points, all_transforms2, average_image, all_transforms3,
                 image_count, out_files>>
  /\ UNCHANGED notAlignVars

\* One iteration of the loop of lines 161-167.  transform.dot on None raises
\* AttributeError.
Pass1Step ==
  /\ pc = "pass1"
  /\ i <= Len(all_images_points)
  /\ LET image_points == all_images_points[i]
         transform == calculate_transform(<<image_points[1], image_points[4]>>, pupil_points)
     IN  IF transform = None
         THEN /\ Raise("AttributeError")
              /\ UNCHANGED <<i, all_transforms, transformed_images_points>>
         ELSE /\ transformed_images_points' =
                   Append(transformed_images_points,
                          [k \in DOMAIN image_points |-> RigidDot(transform, image_points[k])])
              /\ all_transforms' = Append(all_transforms, transform)
              /\ i' = i + 1
              /\ UNCHANGED <<pc, error>>
  /\ UNCHANGED <<dir, log, pupil_points, all_images, all_images_points, averaged_points,
                 all_transforms2, average_image, all_transforms3, image_count, out_files>>
  /\ UNCHANGED notAlignVars

\* A faulty variant of Average: it does not wait for the end of the pass-1
\* loop and averages the transformed sets that exist after the first photo.
AverageAfterFirstPhoto ==
  /\ pc = "pass1"
  /\ i > 1
  /\ ~Ragged(transformed_images_points)
  /\ averaged_points' = AverageAxis0(transformed_images_points)
  /\ all_transforms2' = <<>>
  /\ pc' = "pass2"
  /\ i' = 1
  /\ UNCHANGED <<dir, error, log, pupil_points, all_images, all_images_points,
                 all_transforms, transformed_images_points, average_image, all_transforms3,
                 image_count, out_files>>
  /\ UNCHANGED notAlignVars

\* Lines 170 and 173.  np.array of lists of unequal length raises ValueError;
\* np.average of an empty array is nan (with a RuntimeWarning).
Average ==
  /\ pc = "pass1"
  /\ i > Len(all_images_points)
  /\ IF Ragged(transformed_images_points)
     THEN /\ Raise("ValueError")
          /\ UNCHANGED <<i, averaged_points, all_transforms2>>
     ELSE /\ averaged_points' = IF transformed_images_points = <<>> THEN NaN
                                ELSE AverageAxis0(transformed_images_points)
          /\ all_transforms2' = <<>>
          /\ pc' = "pass2"
          /\ i' = 1
          /\ UNCHANGED error
  /\ UNCHANGED <<dir, log, pupil_points, all_images, all_images_points, all_transforms,
                 transformed_images_points, average_image, all_transforms3, image_count,
                 out_files>>
  /\ UNCHANGED notAlignVars

\* One iteration of the loop of lines 174-179.
Pass2Step ==
  /\ pc = "pass2"
  /\ i <= Len(transformed_images_points)
  /\ LET image_points == transformed_images_points[i]
         fit == calculate_transform(<<image_points[1], image_points[4], image_points[5]>>,
                                    <<averaged_points[1], averaged_points[4], averaged_points[5]>>)
     IN  \E second_transform \in InlierTestOutcomes(fit) :
           all_transforms2' = Append(all_transforms2, second_transform)
  /\ i' = i + 1
  /\ UNCHANGED <<dir, pc, error, log, pupil_points, all_images, all_images_points,
                 all_transforms, transformed_images_points, averaged_points, average_image,
                 all_transforms3, image_count, out_files>>
  /\ UNCHANGED notAlignVars

\* Lines 181-185: the average image, the list of final transforms and the
\* destination triangle.  Indexing the scalar nan raises IndexError.
Pass3Begin ==
  /\ pc = "pass2"
  /\ i > Len(transformed_images_points)
  /\ average_image' = Zeros(output_height, output_width)
  /\ all_transforms3' = <<>>
  /\ IF averaged_points = NaN
     THEN /\ Raise("IndexError")
          /\ UNCHANGED i
     ELSE /\ pc' = "pass3"
          /\ i' = 1
          /\ UNCHANGED error
  /\ UNCHANGED <<dir, log, pupil_points, all_images, all_images_points, all_transforms,
                 transformed_images_points, averaged_points, all_transforms2, image_count,
                 out_files>>
  /\ UNCHANGED notAlignVars

\* Line 185.
destination_triangle == <<averaged_points[1], averaged_points[4], averaged_points[5]>>

\* A faulty variant of Pass3Step: the source triangle is taken from the
\* pass-1 transformed landmarks instead of the original ones.
Pass3StepFromTransformed ==
  /\ pc = "pass3"
  /\ i <= Len(all_images_points)
  /\ LET image_points == transformed_images_points[i]
         source_triangle == <<image_points[1], image_points[4], image_points[5]>>
         third_transform == getAffineTransform(Float32Points(source_triangle),
                                               Float32Points(destination_triangle))
     IN  all_transforms3' = Append(all_transforms3, third_transform)
  /\ i' = i + 1
  /\ UNCHANGED <<dir, pc, error, log, pupil_points, all_images, all_images_points,
                 all_transforms, transformed_images_points, averaged_points, all_transforms2,
                 average_image, image_count, out_files>>
  /\ UNCHANGED notAlignVars

\* A faulty variant of Pass3Step: the result of pass 2 is read, and a photo
\* whose pass-2 estimation failed gets no usable final transform.
Pass3StepReadingPass2 ==
  /\ pc = "pass3"
  /\ i <= Len(all_images_points)
  /\ LET image_points == all_images_points[i]
         source_triangle == <<image_points[1], image_points[4], image_points[5]>>
         third_transform == IF all_transforms2[i] = None
                            THEN ZeroMatrix
                            ELSE getAffineTransform(Float32Points(source_triangle),
                                                    Float32Points(destination_triangle))
     IN  all_transforms3' = Append(all_transforms3, third_transform)
  /\ i' = i + 1
  /\ UNCHANGED <<dir, pc, error, log, pupil_points, all_images, all_images_points,
                 all_transforms, transformed_images_points, averaged_points, all_transforms2,
                 average_image, image_count, out_files>>
  /\ UNCHANGED notAlignVars

\* One iteration of the loop of lines 186-189.
Pass3Step ==
  /\ pc = "pass3"
  /\ i <= Len(all_images_points)
  /\ LET image_points == all_images_points[i]
         source_triangle == <<image_points[1], image_points[4], image_points[5]>>
         third_transform == getAffineTransform(Float32Points(source_triangle),
                                               Float32Points(destination_triangle))
     IN  all_transforms3' = Append(all_transforms3, third_transform)
  /\ i' = i + 1
  /\ UNCHANGED <<dir, pc, error, log, pupil_points, all_images, all_images_points,
                 all_transforms, transformed_images_points, averaged_points, all_transforms2,
                 average_image, image_count, out_files>>
  /\ UNCHANGED notAlignVars

\* Line 191.
CompositeBegin ==
  /\ pc = "pass3"
  /\ i > Len(all_images_points)
  /\ image_count' = Len(all_images)
  /\ pc' = "composite"
  /\ i' = 1
  /\ UNCHANGED <<dir, error, log, pupil_points, all_images, all_images_points,
                 all_transforms, transformed_images_points, averaged_points, all_transforms2,
                 average_image, all_transforms3, out_files>>
  /\ UNCHANGED notAlignVars

\* A faulty variant of WarpStep: line 200 assigns instead of accumulating.
WarpStepOverwrite ==
  /\ pc = "composite"
  /\ i <= image_count
  /\ LET new_image == warpAffine(all_images[i], all_transforms3[i], output_width, output_height)
     IN  /\ out_files' = WriteFile(out_files, Format03(i - 1) \o ".jpg", Times255(new_image))
         /\ average_image' =
              [average_image EXCEPT !.pix =
                 [p \in ProbePixels |-> RDiv(new_image.pix[p], R(image_count))]]
  /\ i' = i + 1
  /\ UNCHANGED <<dir, pc, error, log, pupil_points, all_images, all_images_points,
                 all_transforms, transformed_images_points, averaged_points, all_transforms2,
                 all_transforms3, image_count>>
  /\ UNCHANGED notAlignVars

\* A faulty variant of WarpStep: line 200 adds the warped image undivided.
WarpStepNoDivide ==
  /\ pc = "composite"
  /\ i <= image_count
  /\ LET new_image == warpAffine(all_images[i], all_transforms3[i], output_width, output_height)
     IN  /\ out_files' = WriteFile(out_files, Format03(i - 1) \o ".jpg", Times255(new_image))
         /\ average_image' =
              [average_image EXCEPT !.pix =
                 [p \in ProbePixels |-> RAdd(average_image.pix[p], new_image.pix[p])]]
  /\ i' = i + 1
  /\ UNCHANGED <<dir, pc, error, log, pupil_points, all_images, all_images_points,
                 all_transforms, transformed_images_points, averaged_points, all_transforms2,
                 all_transforms3, image_count>>
  /\ UNCHANGED notAlignVars

\* One iteration of the loop of lines 192-200; n = i - 1.
WarpStep ==
  /\ pc = "composite"
  /\ i <= image_count
  /\ LET new_image == warpAffine(all_images[i], all_transforms3[i], output_width, output_height)
     IN  /\ out_files' = WriteFile(out_files, Format03(i - 1) \o ".jpg", Times255(new_image))
         /\ average_image' =
              [average_image EXCEPT !.pix =
                 [p \in ProbePixels |->
                    RAdd(average_image.pix[p], RDiv(new_image.pix[p], R(image_count)))]]
  /\ i' = i + 1
  /\ UNCHANGED <<dir, pc, error, log, pupil_points, all_images, all_images_points,
                 all_transforms, transformed_images_points, averaged_points, all_transforms2,
                 all_transforms3, image_count>>
  /\ UNCHANGED notAlignVars

\* Lines 202-205.
WriteAverage ==
  /\ pc = "composite"
  /\ i > image_count
  /\ out_files' = WriteFile(out_files, "average.jpg", Times255(average_image))
  /\ pc' = "done"
  /\ UNCHANGED <<dir, i, error, log, locals>>
  /\ UNCHANGED notAlignVars

Next ==
  \/ Begin
  \/ LoadStep
  \/ Pass1Begin
  \/ Pass1Step
  \/ Average
  \/ Pass2Step
  \/ Pass3Begin
  \/ Pass3Step
  \/ CompositeBegin
  \/ WarpStep
  \/ WriteAverage

Spec == Init /\ [][Next]_vars


(***************************************************************************)
(* Properties of the run.                                                  *)
(***************************************************************************)
\* The original landmark slots 0, 3, 4 of photo k of the batch.
OriginalTriangle(k) ==
  <<all_images_points[k][1], all_images_points[k][4], all_images_points[k][5]>>

\* averaged_points holds an array of landmarks.
Averaged == averaged_points # <<>> /\ averaged_points # NaN

\* C1: for every photo of the batch whose original landmark slots 0, 3, 4 are
\* not collinear, the pass-3 transform maps original slot 0 to averaged slot
\* 0, original slot 3 to averaged slot 3 and original slot 4 to averaged
\* slot 4 (so it is a transform of the original, untransformed landmarks).
C1_Pass3MapsOriginalToAveraged ==
  \A k \in DOMAIN all_transforms3 :
    ~Collinear(OriginalTriangle(k)) =>
      \A j \in 1..3 :
        Dot(all_transforms3[k], OriginalTriangle(k)[j]) = destination_triangle[j]

\* Pass 3 has run over a batch of two different photos, one of them tilted,
\* and the pass-1 transformed landmarks differ from the original ones.
C1_Witness ==
  /\ pc = "done"
  /\ dir = <<"tilted", "face">>
  /\ Len(all_transforms3) = 2
  /\ \A k \in 1..2 : ~Collinear(OriginalTriangle(k))
  /\ all_transforms3[1] # all_transforms3[2]
  /\ transformed_images_points[1] # all_images_points[1]

\* C2: the run goes pass 1, averaging, pass 2, pass 3, compositing, each
\* over the whole batch: the averaged landmarks exist only once every photo
\* has its pass-1 transformed set and are the average of all of them; pass 2
\* and pass 3 results exist only after the averaging; pass 3 starts after
\* pass 2 has covered the batch and compositing after pass 3 has.
C2_StrictPassOrder ==
  /\ Averaged =>
       /\ Len(transformed_images_points) = Len(all_images_points)
       /\ Len(averaged_points) = Len(transformed_images_points[1])
       /\ \A s \in DOMAIN averaged_points :
            \A c \in 1..2 :
              averaged_points[s][c] =
                ToFloat32(RDiv(SumSeq([k \in DOMAIN all_images_points |->
                                 ToFloat32(transformed_images_points[k][s][c])]),
                               R(Len(all_images_points))))
  /\ all_transforms2 # <<>> => Averaged
  /\ all_transforms3 # <<>> => Averaged /\ Len(all_transforms2) = Len(all_images_points)
  /\ out_files # <<>> => Len(all_transforms3) = Len(all_images_points)
  /\ pc \in {"pass2", "pass3", "composite", "done"} => averaged_points # <<>>

\* Pass 2 is under way on a batch of two photos: one pass-2 estimation is
\* done, the other is not.
C2_Witness ==
  /\ pc = "pass2"
  /\ Len(all_images_points) = 2
  /\ Len(all_transforms2) = 1
  /\ Averaged

\* The run has ended, normally or by an exception.
Ended == pc \in {"done", "crashed"}

\* C3: when load_data returns an empty batch the run is rejected with an
\* EmptyBatchError before pass 1 starts: past load_data there is no
\* averaging, no average image and no output, and the error is that one.
C3_EmptyBatchRejectedBeforePass1 ==
  (all_images = <<>> /\ pc \in {"pass2", "pass3", "composite", "done", "crashed"}) =>
    /\ error = "EmptyBatchError"
    /\ averaged_points = <<>>
    /\ average_image = None
    /\ out_files = <<>>

\* What the run does on an empty batch: the averaging has produced nan, the
\* average image is allocated, and line 185 has raised IndexError.
C3_Divergence ==
  /\ all_images = <<>>
  /\ pc = "crashed"
  /\ error = "IndexError"
  /\ averaged_points = NaN
  /\ average_image = Zeros(output_height, output_width)

\* The points handed to the rigid estimation of pass 2 for photo k.
Pass2Triangle(k) ==
  Float32Points(<<transformed_images_points[k][1], transformed_images_points[k][4],
                  transformed_images_points[k][5]>>)

\* C4: estimation on three collinear points reports a
\* DegenerateGeometryError and never returns a transform value: no result
\* of the rigid estimation (pass 2) or of the affine solve (pass 3) is held
\* for a photo whose three source points are collinear, and when a batch has
\* such a photo the run ends with that error.
C4_CollinearEstimationRaises ==
  /\ \A k \in DOMAIN all_transforms2 : ~Collinear(Pass2Triangle(k))
  /\ \A k \in DOMAIN all_transforms3 : ~Collinear(OriginalTriangle(k))
  /\ (Ended /\ \E k \in DOMAIN all_transforms : Collinear(OriginalTriangle(k))) =>
       error = "DegenerateGeometryError"

\* What the estimations return on collinear points: None from the rigid
\* estimation and the all-zero matrix from the affine solve, both kept.
C4_Divergence ==
  \E k \in DOMAIN all_transforms3 :
    /\ Collinear(OriginalTriangle(k))
    /\ Collinear(Pass2Triangle(k))
    /\ all_transforms2[k] = None
    /\ all_transforms3[k] = ZeroMatrix
    /\ pc = "done"

\* The name of the n-th aligned output (n from 0), line 197.
AlignedName(n) == Format03(n) \o ".jpg"

\* The pass-1 estimation of photo k of the batch fails.
Pass1Fails(k) ==
  calculate_transform(<<all_images_points[k][1], all_images_points[k][4]>>,
                      calculate_pupil_points(output_width, output_height)) = None

\* C5: a photo whose pass-1 or pass-3 estimation fails is left out of the
\* averaging and of the output while the other photos are still processed,
\* and a failed transform is never applied or warped: a batch holding a photo
\* whose pass-1 estimation fails does not end by an exception, no pass-1
\* landmarks are kept for such a photo, and once the run is done no photo
\* with a degenerate pass-3 triangle has an output file.
C5_FailedPhotoExcludedOthersProcessed ==
  /\ (\E k \in DOMAIN all_images_points : Pass1Fails(k)) => pc # "crashed"
  /\ Len(transformed_images_points) = Len(all_images_points) =>
       \A k \in DOMAIN all_images_points : ~Pass1Fails(k)
  /\ pc = "done" =>
       \A k \in DOMAIN all_transforms3 :
         Collinear(OriginalTriangle(k)) => AlignedName(k - 1) \notin DOMAIN out_files

\* What the run does when the pass-1 estimation of the first of two photos
\* fails: it stops with AttributeError at line 165, the second photo
\* untouched and nothing written.
C5_Divergence ==
  /\ Len(all_images_points) = 2
  /\ Pass1Fails(1)
  /\ ~Pass1Fails(2)
  /\ pc = "crashed"
  /\ error = "AttributeError"
  /\ transformed_images_points = <<>>
  /\ out_files = <<>>

\* C6: every landmark set admitted into the batch has exactly 5 points,
\* whatever the number of lines of the coordinate file.
C6_AdmittedSetsHaveFivePoints ==
  \A k \in DOMAIN all_images_points : Len(all_images_points[k]) = 5

\* What load_data does with a file of 6 lines: a landmark set of 6 points is
\* in the batch.
C6_Divergence ==
  \E k \in DOMAIN all_images_points : Len(all_images_points[k]) = 6

\* C7 (as corrected): for a batch of exactly one photo the averaged landmarks
\* equal that photo's pass-1 transformed landmarks converted to single
\* precision, slot by slot.
C7_SinglePhotoAverageIsFloat32OfPass1 ==
  (Len(all_images_points) = 1 /\ Averaged) =>
    averaged_points = Float32Points(transformed_images_points[1])

\* C7 (as stated): for a batch of exactly one photo the averaged landmarks
\* equal that photo's pass-1 transformed landmarks exactly, slot by slot.
C7_SinglePhotoAverageIsPass1Exactly ==
  (Len(all_images_points) = 1 /\ Averaged) =>
    averaged_points = transformed_images_points[1]

\* A batch of one photo has been averaged, and the conversion to single
\* precision changed one of its pass-1 landmarks.
C7_Witness ==
  /\ Len(all_images_points) = 1
  /\ Averaged
  /\ Len(averaged_points) = 5
  /\ \E s \in 1..5 : averaged_points[s] # transformed_images_points[1][s]

\* The photos of the batch are identical: same pixels, same landmarks.
IdenticalPhotos ==
  \A j, k \in DOMAIN all_images :
    all_images[j] = all_images[k] /\ all_images_points[j] = all_images_points[k]

\* C8: for a batch of N >= 1 identical photos all N final transforms are
\* equal, and the final average image equals each of the aligned outputs.
C8_IdenticalPhotosAverageIsAligned ==
  (IdenticalPhotos /\ Len(all_images) >= 1) =>
    /\ \A j, k \in DOMAIN all_transforms3 : all_transforms3[j] = all_transforms3[k]
    /\ pc = "done" =>
         \A n \in 0..(image_count - 1) :
           out_files["average.jpg"] = out_files[AlignedName(n)]

\* A run over two copies of a photo with non-uniform pixels has ended; the
\* aligned output is not blank.
C8_Witness ==
  /\ pc = "done"
  /\ dir = <<"face", "face">>
  /\ image_count = 2
  /\ \E p, q \in ProbePixels :
       /\ out_files[AlignedName(1)].pix[p] # Zero
       /\ out_files[AlignedName(1)].pix[p] # out_files[AlignedName(1)].pix[q]

\* The number of aligned outputs written so far.
AlignedCount == Cardinality(DOMAIN out_files \ {"average.jpg"})

\* The sum over the first n aligned outputs of pixel p (in 0..255 scale).
RECURSIVE SumAligned(_, _)
SumAligned(n, p) ==
  IF n = 0 THEN Zero ELSE RAdd(SumAligned(n - 1, p), out_files[AlignedName(n - 1)].pix[p])

C10_OutputsHaveCanvasSize ==
  /\ \A f \in DOMAIN out_files :
       out_files[f].width = output_width /\ out_files[f].height = output_height
  /\ average_image # None =>
       average_image.width = output_width /\ average_image.height = output_height

\* A run over two source images of different sizes, neither the size of the
\* canvas, has written its three files.
C10_Witness ==
  /\ pc = "done"
  /\ Len(all_images) = 2
  /\ all_images[1].width # all_images[2].width
  /\ \A k \in 1..2 : all_images[k].width # output_width /\ all_images[k].height # output_height
  /\ Cardinality(DOMAIN out_files) = 3

(***************************************************************************)
(* Functions applied on their own.  fn_args holds the name of a function   *)
(* of the repository and its arguments, drawn from bounded sets; the       *)
(* action of that function applies it and leaves what it returned in       *)
(* fn_result.  The run of main() is not started.                           *)
(***************************************************************************)
\* Largest coordinate of the points given to the geometry functions.
MaxCoord == 4

GridPoints == {P(x, y) : x, y \in 0..MaxCoord}

\* Point lists given to calculate_transform: 2 or 3 points of a few positions,
\* and the pupil targets of the canvas of main().
SidePoints == {P(0, 0), P(2, 0), P(1, 3)}

PointLists ==
  UNION {[1..n -> SidePoints] : n \in 2..3}
    \cup {calculate_pupil_points(output_width, output_height)}

TransformInputs ==
  {[fn |-> "calculate_transform", starting_point |-> sp, target_point |-> tp] :
     sp \in PointLists, tp \in PointLists}

\* Largest canvas width and height given to calculate_pupil_points, next to
\* the canvas of main().
MaxCanvasWidth == 200

MaxCanvasHeight == 5

PupilInputs ==
  {[fn |-> "calculate_pupil_points", output_width |-> w, output_height |-> h] :
     w \in (1..MaxCanvasWidth) \cup {output_width},
     h \in (1..MaxCanvasHeight) \cup {output_height}}

ThirdPointInputs ==
  {[fn |-> "calculate_third_equilateral_point", a |-> a, b |-> b] :
     a \in GridPoints, b \in GridPoints}

(***************************************************************************)
(* mandelbrot.py: iterate and iterate_fake_complex, in exact arithmetic.   *)
(***************************************************************************)
\* The largest max_iters given to the iterators.
MaxIters == 3

\* abs(z) > 2.0 for z = real + imag*j, and real2 + imag2 > 4.0.
Escaped(real, imag) == RLt(R(4), RAdd(RMul(real, real), RMul(imag, imag)))

\* The loop of lines 18-21 from its iteration count on.
RECURSIVE IterateFrom(_, _, _, _, _, _)
IterateFrom(z_real, z_imag, c_real, c_imag, count, max_iters) ==
  IF count >= max_iters THEN max_iters
  ELSE LET real == RAdd(RSub(RMul(z_real, z_real), RMul(z_imag, z_imag)), c_real)
           imag == RAdd(RMul(R(2), RMul(z_real, z_imag)), c_imag)
       IN  IF Escaped(real, imag) THEN count
           ELSE IterateFrom(real, imag, c_real, c_imag, count + 1, max_iters)

\* iterate(c_real, c_imag, max_iters), lines 13-22.
iterate(c_real, c_imag, max_iters) == IterateFrom(Zero, Zero, c_real, c_imag, 0, max_iters)

\* The loop of lines 34-40 from its iteration step on; the value is that of
\* step when the loop is left.
RECURSIVE FakeComplexFrom(_, _, _, _, _, _)
FakeComplexFrom(real, imag, c_real, c_imag, step, max_iters) ==
  LET real2 == RMul(real, real)
      imag2 == RMul(imag, imag)
  IN  IF RLt(R(4), RAdd(real2, imag2)) THEN step
      ELSE IF step + 1 >= max_iters THEN step
           ELSE FakeComplexFrom(RAdd(RSub(real2, imag2), c_real),
                                RAdd(RMul(RMul(R(2), real), imag), c_imag),
                                c_real, c_imag, step + 1, max_iters)

\* iterate_fake_complex(c_real, c_imag, max_iters), lines 25-41; with an
\* empty range step is never bound.
iterate_fake_complex(c_real, c_imag, max_iters) ==
  IF max_iters <= 0 THEN "UnboundLocalError"
  ELSE FakeComplexFrom(Zero, Zero, c_real, c_imag, 0, max_iters)

\* Points c of the plane, in halves, around the set.
IterateInputs ==
  {[fn |-> "iterator", fake_complex |-> f, c_real |-> RNorm(re, 2), c_imag |-> RNorm(im, 2),
    max_iters |-> n] :
     f \in BOOLEAN, re \in -5..3, im \in -3..3, n \in 0..MaxIters}

CallInputs == TransformInputs \cup PupilInputs \cup ThirdPointInputs \cup IterateInputs

CallInit ==
  /\ dir = <<>>
  /\ pc = "main"
  /\ i = 1
  /\ error = "none"
  /\ log = <<>>
  /\ pupil_points = <<>>
  /\ all_images = <<>>
  /\ all_images_points = <<>>
  /\ all_transforms = <<>>
  /\ transformed_images_points = <<>>
  /\ averaged_points = <<>>
  /\ all_transforms2 = <<>>
  /\ average_image = None
  /\ all_transforms3 = <<>>
  /\ image_count = 0
  /\ out_files = <<>>
  /\ fn_args \in CallInputs
  /\ fn_result = None
  /\ CaptureIdle

\* calculate_transform(starting_point, target_point), lines 106-131; the
\* arrays passed to the estimator at lines 126-130 are kept with its result.
ApplyCalculateTransform ==
  /\ fn_args.fn = "calculate_transform"
  /\ fn_result = None
  /\ fn_result' =
       [estimator_arguments |-> EstimatorArguments(fn_args.starting_point, fn_args.target_point),
        returned |-> calculate_transform(fn_args.starting_point, fn_args.target_point)]
  /\ UNCHANGED <<fn_args, alignVars, captureVars>>

\* calculate_pupil_points(output_width, output_height), lines 134-148.
ApplyCalculatePupilPoints ==
  /\ fn_args.fn = "calculate_pupil_points"
  /\ fn_result = None
  /\ fn_result' =
       [returned |-> calculate_pupil_points(fn_args.output_width, fn_args.output_height)]
  /\ UNCHANGED <<fn_args, alignVars, captureVars>>

\* calculate_third_equilateral_point(a, b), lines 73-103.
ApplyCalculateThirdPoint ==
  /\ fn_args.fn = "calculate_third_equilateral_point"
  /\ fn_result = None
  /\ fn_result' = [returned |-> calculate_third_equilateral_point(fn_args.a, fn_args.b)]
  /\ UNCHANGED <<fn_args, alignVars, captureVars>>

\* mandelbrot.py lines 123 and 135: iterator(real, imag, args.max_iters).
ApplyIterator ==
  /\ fn_args.fn = "iterator"
  /\ fn_result = None
  /\ LET c_real == fn_args.c_real
         c_imag == fn_args.c_imag
     IN  fn_result' =
           [returned |-> IF fn_args.fake_complex
                         THEN iterate_fake_complex(c_real, c_imag, fn_args.max_iters)
                         ELSE iterate(c_real, c_imag, fn_args.max_iters)]
  /\ UNCHANGED <<fn_args, alignVars, captureVars>>

CallNext ==
  \/ ApplyCalculateTransform
  \/ ApplyCalculatePupilPoints
  \/ ApplyCalculateThirdPoint
  \/ ApplyIterator

CallSpec == CallInit /\ [][CallNext]_vars

\* fn_result holds what the function named in fn_args returned.
Returned(fn) == fn_args.fn = fn /\ fn_result # None

\* np.float32 of a point with coordinates p + q*sqrt(3).
QFloat32Point(z) == <<QToFloat32(z[1]), QToFloat32(z[2])>>

\* C11: when calculate_transform is given 2 points on each side, the
\* estimator is called with 3 source and 3 target points: the two given
\* points of each side in their order, then the third equilateral point of
\* that side's own pair.
C11_TwoPointSidesExtendedToThree ==
  (/\ Returned("calculate_transform")
   /\ Len(fn_args.starting_point) = 2
   /\ Len(fn_args.target_point) = 2) =>
    LET sp == fn_args.starting_point
        tp == fn_args.target_point
        src == fn_result.estimator_arguments.src
        dst == fn_result.estimator_arguments.dst
    IN  /\ Len(src) = 3 /\ Len(dst) = 3
        /\ \A k \in 1..2 : src[k] = Float32Points(sp)[k] /\ dst[k] = Float32Points(tp)[k]
        /\ src[3] = QFloat32Point(calculate_third_equilateral_point(sp[1], sp[2]))
        /\ dst[3] = QFloat32Point(calculate_third_equilateral_point(tp[1], tp[2]))

\* calculate_transform has returned a transform for the call of line 162:
\* two distinct landmarks as source, the pupil targets of main() as target.
C11_Witness ==
  /\ Returned("calculate_transform")
  /\ fn_args.starting_point = <<P(0, 0), P(2, 0)>>
  /\ fn_args.target_point = calculate_pupil_points(output_width, output_height)
  /\ fn_result.returned # None
  /\ fn_result.estimator_arguments.src[3] # fn_result.estimator_arguments.dst[3]

\* C12: for every canvas width and height the pupil targets lie 35% of the
\* width from each side and 40% of the height from the top: both have the
\* same y, that y is 40% of the height up to the pixel, left.x + right.x is
\* the canvas width, and for the canvas 600 x 800 they are (210, 320) and
\* (390, 320).
C12_PupilTargetsSymmetric ==
  Returned("calculate_pupil_points") =>
    LET left == fn_result.returned[1]
        right == fn_result.returned[2]
        width == fn_args.output_width
        height == fn_args.output_height
    IN  /\ left[2] = right[2]
        /\ left[2] = R(RFloor(RMul(R(height), <<2, 5>>)))
        /\ RAdd(left[1], right[1]) = R(width)
        /\ (width = 600 /\ height = 800) =>
             left = P(210, 320) /\ right = P(390, 320)

\* What calculate_pupil_points returns for a canvas 180 wide: 35% of the
\* width is 63 and 65% is 117, the targets are at x = 62 and x = 117.
C12_Divergence ==
  /\ Returned("calculate_pupil_points")
  /\ fn_args.output_width = 180
  /\ fn_result.returned[1][1] = R(62)
  /\ fn_result.returned[2][1] = R(117)

\* Squared distance of two points with coordinates p + q*sqrt(3).
QSqDist(u, v) ==
  QAdd(QMul(QSub(v[1], u[1]), QSub(v[1], u[1])), QMul(QSub(v[2], u[2]), QSub(v[2], u[2])))

\* z is within half a thousandth of milli/1000 (round(z, 3) gives it).
About(z, milli) ==
  /\ QSign(QSub(z, Q3(<<2 * milli - 1, 2000>>))) >= 0
  /\ QSign(QSub(Q3(<<2 * milli + 1, 2000>>), z)) >= 0

\* C13: for distinct points a and b, the point c returned is a turned about b
\* by +60 degrees: |c-b| = |a-b| = |c-a| and the turn from a to c about b is
\* positive; for ((0,0),(2,0)), ((0,0),(0,2)) and ((2,2),(4,2)) it is about
\* (1.0, -1.732), (1.732, 1.0) and (3.0, 0.268).
C13_ThirdPointEquilateral ==
  (Returned("calculate_third_equilateral_point") /\ fn_args.a # fn_args.b) =>
    LET a == Lift(fn_args.a)
        b == Lift(fn_args.b)
        c == fn_result.returned
        turn == QSub(QMul(QSub(a[1], b[1]), QSub(c[2], b[2])),
                     QMul(QSub(a[2], b[2]), QSub(c[1], b[1])))
    IN  /\ QSqDist(c, b) = QSqDist(a, b)
        /\ QSqDist(c, a) = QSqDist(a, b)
        /\ QSign(turn) > 0
        /\ (fn_args.a = P(0, 0) /\ fn_args.b = P(2, 0)) => About(c[1], 1000) /\ About(c[2], -1732)
        /\ (fn_args.a = P(0, 0) /\ fn_args.b = P(0, 2)) => About(c[1], 1732) /\ About(c[2], 1000)
        /\ (fn_args.a = P(2, 2) /\ fn_args.b = P(4, 2)) => About(c[1], 3000) /\ About(c[2], 268)

\* The function has returned for the example ((2,2),(4,2)), with an
\* irrational y.
C13_Witness ==
  /\ Returned("calculate_third_equilateral_point")
  /\ fn_args.a = P(2, 2)
  /\ fn_args.b = P(4, 2)
  /\ fn_result.returned[2][2] # Zero

\* The final transform of photo k as a function of the original landmarks
\* and the averaged landmarks alone.
FinalTransformOf(k) ==
  getAffineTransform(Float32Points(OriginalTriangle(k)),
                     Float32Points(<<averaged_points[1], averaged_points[4],
                                     averaged_points[5]>>))

\* The aligned image of photo k as a function of the original image, the
\* original landmarks and the averaged landmarks alone.
AlignedOf(k) == warpAffine(all_images[k], FinalTransformOf(k), output_width, output_height)

\* The average image over the first n photos as such a function.
RECURSIVE AverageOf(_, _)
AverageOf(n, p) ==
  IF n = 0 THEN Zero
  ELSE RAdd(AverageOf(n - 1, p), RDiv(AlignedOf(n).pix[p], R(Len(all_images))))

\* C14: the final transforms, the aligned outputs and the average image are
\* determined by the original landmarks, the original images and the
\* averaged landmarks alone; the pass-2 transforms are never read, so
\* whatever pass 2 returned (a transform or a failure) the outputs are the
\* same.
C14_OutputsIndependentOfPass2 ==
  /\ \A k \in DOMAIN all_transforms3 : all_transforms3[k] = FinalTransformOf(k)
  /\ \A k \in DOMAIN all_images :
       AlignedName(k - 1) \in DOMAIN out_files =>
         out_files[AlignedName(k - 1)] = Times255(AlignedOf(k))
  /\ "average.jpg" \in DOMAIN out_files =>
       out_files["average.jpg"] =
         Times255([width |-> output_width, height |-> output_height,
                   pix |-> [p \in ProbePixels |-> AverageOf(Len(all_images), p)]])

\* A run over twice the same photo is done; pass 2 failed for the first copy
\* and returned a transform for the second, and the two aligned outputs are
\* the same image, not a blank one.
C14_Witness ==
  /\ pc = "done"
  /\ dir = <<"face", "face">>
  /\ all_transforms2[1] = None
  /\ all_transforms2[2] # None
  /\ out_files[AlignedName(0)] = out_files[AlignedName(1)]
  /\ \E p \in ProbePixels : out_files[AlignedName(0)].pix[p] # Zero

(***************************************************************************)
(* capture-coords.py: process_directory(dir_path).  The window's mouse      *)
(* events are queued by the window system at any time and dispatched to    *)
(* the registered callback while cv2.waitKey runs the event loop.  What is *)
(* drawn on the window (lines 42, 46-49, 62, 72, 77-78) is not kept.       *)
(***************************************************************************)
\* The number of *.jpg files of dir_path.
NumJpgs == 2

\* The most mouse clicks the user makes without a reset in between.
MaxClicks == 6

\* The most mouse events waiting in the window's queue.
MaxQueued == 2

ClickPositions == {<<10, 20>>, <<30, 40>>}

MouseEvents ==
  {[event |-> "EVENT_LBUTTONDOWN", x |-> c[1], y |-> c[2]] : c \in ClickPositions}
    \cup {[event |-> "EVENT_MOUSEMOVE", x |-> 10, y |-> 20]}

\* What cv2.waitKey returns: -1 without a key, else the key code
\* (27 escape, 110 'n', 114 'r', 120 'x').
WaitKeyReturns == {-1, 27, 110, 114, 120}

\* main() of align.py is not running and no function is applied on its own.
AlignIdle ==
  /\ dir = <<>>
  /\ pc = "main"
  /\ i = 1
  /\ error = "none"
  /\ log = <<>>
  /\ pupil_points = <<>>
  /\ all_images = <<>>
  /\ all_images_points = <<>>
  /\ all_transforms = <<>>
  /\ transformed_images_points = <<>>
  /\ averaged_points = <<>>
  /\ all_transforms2 = <<>>
  /\ average_image = None
  /\ all_transforms3 = <<>>
  /\ image_count = 0
  /\ out_files = <<>>
  /\ fn_args = None
  /\ fn_result = None

\* Lines 130-132 and 122.
CaptureInit ==
  /\ AlignIdle
  /\ capture_pc = "process_directory"
  /\ jpg = 1
  /\ first_time = TRUE
  /\ new_coords = <<>>
  /\ key = 255
  /\ events = <<>>
  /\ txt_files = <<>>

\* The user moves or clicks the mouse over the window: the window system
\* queues the event.
Mouse ==
  /\ capture_pc \in {"imshow", "waitKey", "len", "key"}
  /\ Len(events) < MaxQueued
  /\ \E e \in MouseEvents :
       /\ e.event = "EVENT_LBUTTONDOWN" => Len(new_coords) + Len(events) < MaxClicks
       /\ events' = Append(events, e)
  /\ UNCHANGED <<capture_pc, jpg, first_time, new_coords, key, txt_files, fn_args, fn_result,
                 alignVars>>

\* Lines 123-125, 90-93 and 60-70: the next jpg, a fresh list new_coords and
\* the callback bound to it.
gather_coords_for_image ==
  /\ capture_pc = "process_directory"
  /\ jpg <= NumJpgs
  /\ new_coords' = <<>>
  /\ capture_pc' = "imshow"
  /\ UNCHANGED <<jpg, first_time, key, events, txt_files, fn_args, fn_result, alignVars>>

\* Line 72.
imshow ==
  /\ capture_pc = "imshow"
  /\ capture_pc' = "waitKey"
  /\ UNCHANGED <<jpg, first_time, new_coords, key, events, txt_files, fn_args, fn_result,
                 alignVars>>

\* Lines 38-43, called by the event loop of cv2.waitKey for one queued event.
add_coordinate ==
  /\ capture_pc = "waitKey"
  /\ events # <<>>
  /\ LET e == Head(events)
     IN  new_coords' = IF e.event = "EVENT_LBUTTONDOWN"
                       THEN Append(new_coords, <<e.x, e.y>>)
                       ELSE new_coords
  /\ events' = Tail(events)
  /\ UNCHANGED <<capture_pc, jpg, first_time, key, txt_files, fn_args, fn_result, alignVars>>

\* Line 73: cv2.waitKey returns, after a key or after the delay.
waitKey ==
  /\ capture_pc = "waitKey"
  /\ \E code \in WaitKeyReturns : key' = code % 256
  /\ capture_pc' = "len"
  /\ UNCHANGED <<jpg, first_time, new_coords, events, txt_files, fn_args, fn_result,
                 alignVars>>

\* Lines 74-75.
LengthCheck ==
  /\ capture_pc = "len"
  /\ capture_pc' = IF Len(new_coords) = 5 THEN "returned" ELSE "key"
  /\ UNCHANGED <<jpg, first_time, new_coords, key, events, txt_files, fn_args, fn_result,
                 alignVars>>

\* Lines 76-84.
KeyHandling ==
  /\ capture_pc = "key"
  /\ IF key = 114
     THEN new_coords' = <<>> /\ capture_pc' = "imshow"
     ELSE IF key \in {27, 110}
          THEN capture_pc' = "returned" /\ UNCHANGED new_coords
          ELSE capture_pc' = "imshow" /\ UNCHANGED new_coords
  /\ UNCHANGED <<jpg, first_time, key, events, txt_files, fn_args, fn_result, alignVars>>

\* save_new_coords_for_image(jpg_path, new_coords), lines 114-118.
save_new_coords_for_image(files, n, coords) ==
  [f \in DOMAIN files \cup {n} |-> IF f = n THEN coords ELSE files[f]]

\* Lines 87, 95-99 and 126-128.
SaveStep ==
  /\ capture_pc = "returned"
  /\ txt_files' = IF Len(new_coords) = 5
                  THEN save_new_coords_for_image(txt_files, jpg, new_coords)
                  ELSE txt_files
  /\ first_time' = FALSE
  /\ jpg' = jpg + 1
  /\ capture_pc' = "process_directory"
  /\ UNCHANGED <<new_coords, key, events, fn_args, fn_result, alignVars>>

\* The loop of line 123 is over.
CaptureEnd ==
  /\ capture_pc = "process_directory"
  /\ jpg > NumJpgs
  /\ capture_pc' = "done"
  /\ UNCHANGED <<jpg, first_time, new_coords, key, events, txt_files, fn_args, fn_result,
                 alignVars>>

CaptureNext ==
  \/ Mouse
  \/ gather_coords_for_image
  \/ imshow
  \/ add_coordinate
  \/ waitKey
  \/ LengthCheck
  \/ KeyHandling
  \/ SaveStep
  \/ CaptureEnd

CaptureSpec == CaptureInit /\ [][CaptureNext]_vars

\* C15: under any interleaving of the mouse callbacks with the polling
\* loop's length check and key handling, new_coords never holds more than 5
\* points, so whenever gather_coords_for_image returns after five or more
\* clicks were registered since the last reset it returns exactly 5 points
\* (which process_directory saves).
C15_NeverMoreThanFivePoints ==
  /\ Len(new_coords) <= 5
  /\ (capture_pc = "returned" /\ Len(new_coords) >= 5) => Len(new_coords) = 5
  /\ \A f \in DOMAIN txt_files : Len(txt_files[f]) = 5

\* Two clicks were dispatched within one cv2.waitKey while the list held 4
\* points: the list holds 6 points, the length check did not end the loop,
\* and gather_coords_for_image has returned them after 'n' or escape; they
\* are not saved.
C15_Divergence ==
  /\ capture_pc = "returned"
  /\ Len(new_coords) = 6
  /\ key \in {27, 110}
  /\ jpg \notin DOMAIN txt_files

\* C16: iterate_fake_complex is equivalent to iterate: for every c and every
\* max_iters >= 1 the iterator chosen returns what iterate returns and what
\* iterate_fake_complex returns, the same escape count, max_iters for a
\* point that does not escape.
C16_IteratorsEquivalent ==
  (Returned("iterator") /\ fn_args.max_iters >= 1) =>
    LET c_real == fn_args.c_real
        c_imag == fn_args.c_imag
    IN  /\ fn_result.returned = iterate(c_real, c_imag, fn_args.max_iters)
        /\ fn_result.returned = iterate_fake_complex(c_real, c_imag, fn_args.max_iters)

\* What iterate_fake_complex returns for c = 0 and max_iters = 1: 0, where
\* iterate returns 1 (the point does not escape).
C16_Divergence ==
  /\ Returned("iterator")
  /\ fn_args.fake_complex
  /\ fn_args.c_real = Zero
  /\ fn_args.c_imag = Zero
  /\ fn_args.max_iters = 1
  /\ fn_result.returned = 0
  /\ iterate(Zero, Zero, 1) = 1

=============================================================================
